---- MODULE Spec2Model ----
\* A model of ssh-action-rsync's key setup helper (src/main.rs).
\*
\* Text is a sequence of one-character strings; a file's content is a sequence
\* of bytes, each byte a tuple <<kind, key number, position>>.  The file system
\* is the configuration directory (absent, a directory, or some other kind of
\* entry) and the set of files under it, keyed by their tilde-expanded path.
\* Every run of the program is a process; one statement or one system call of
\* main.rs is one action.  The external key generator is a separate process the
\* program waits for: it checks its output path, writes the private key file,
\* writes the public key file, and exits.
EXTENDS Integers, Sequences, FiniteSets, TLC

\* ---------------------------------------------------------------- bounds

MaxLen == 3          \* longest standard-input stream drawn from Chars
MaxRestarts == 1     \* re-runs of the program after a run has ended

\* ---------------------------------------------------------------- text

SSH_DIR == <<"~", "/", ".", "s", "s", "h">>
AUTHORIZED_KEYS_PATH == <<"~", "/", ".", "s", "s", "h", "/", "a", "u", "t", "h", "o", "r", "i", "z", "e", "d", "_", "k", "e", "y", "s">>
DefaultKeyName == <<"g", "i", "t", "h", "u", "b", "-", "a", "c", "t", "i", "o", "n", "s">>
KeyDirPrefix == <<"~", "/", ".", "s", "s", "h", "/">>
PubSuffix == <<".", "p", "u", "b">>
KeygenFailedMsg == <<"S", "S", "H", " ", "k", "e", "y", " ", "g", "e", "n", "e", "r", "a", "t", "i", "o", "n", " ", "f", "a", "i", "l", "e", "d">>

\* The invoking user's home directory, as shellexpand::tilde resolves it.
HomeDir == <<"/", "h", "o", "m", "e", "/", "u">>

\* The characters standard input is drawn from, and those char::is_whitespace
\* accepts among them.
Chars == {" ", "\t", "\n", "a"}
WhiteSpace == {" ", "\t", "\n", "\r"}

\* A line whose trimmed text names the allow-list file itself.
AliasLine == <<"a", "u", "t", "h", "o", "r", "i", "z", "e", "d", "_", "k", "e", "y", "s", "\n">>

SeqsUpTo(S, n) == UNION {[1..k -> S] : k \in 0..n}

Streams == SeqsUpTo(Chars, MaxLen) \cup {AliasLine}

\* The streams the two concurrent runs read: the default name, or the name a.
ConcStreams == {<<>>, <<"a", "\n">>}

IsPrefix(s, t) == Len(s) <= Len(t) /\ SubSeq(t, 1, Len(s)) = s

IsSuffix(s, t) == Len(s) <= Len(t) /\ SubSeq(t, Len(t) - Len(s) + 1, Len(t)) = s

Contains(t, s) == \E i \in 0..(Len(t) - Len(s)) : SubSeq(t, i + 1, i + Len(s)) = s

\* BufRead::read_line on an empty String: everything up to and including the
\* first newline, or the whole stream when it holds none.
RECURSIVE ReadLine(_)
ReadLine(s) ==
    IF s = <<>> THEN <<>>
    ELSE IF Head(s) = "\n" THEN <<"\n">>
    ELSE <<Head(s)>> \o ReadLine(Tail(s))

RECURSIVE TrimStart(_)
TrimStart(s) ==
    IF s # <<>> /\ Head(s) \in WhiteSpace THEN TrimStart(Tail(s)) ELSE s

RECURSIVE TrimEnd(_)
TrimEnd(s) ==
    IF s # <<>> /\ s[Len(s)] \in WhiteSpace THEN TrimEnd(SubSeq(s, 1, Len(s) - 1)) ELSE s

\* str::trim_end in the place of str::trim
TrimEndOnly(s) == TrimEnd(s)

\* str::trim
Trim(s) == TrimEnd(TrimStart(s))

\* main.rs:35-39
ResolveKeyName(line) == IF Trim(line) = <<>> THEN DefaultKeyName ELSE Trim(line)

\* format!("~/.ssh/{}", key_name) and format!("~/.ssh/{}.pub", key_name)
PrivateKeyPath(name) == KeyDirPrefix \o name
PublicKeyPath(name) == KeyDirPrefix \o name \o PubSuffix

\* shellexpand::tilde: a leading ~ that is the whole first path segment becomes
\* the home directory.
Tilde(p) ==
    IF p # <<>> /\ Head(p) = "~" /\ (Len(p) = 1 \/ p[2] = "/")
    THEN HomeDir \o Tail(p)
    ELSE p

AuthPath == Tilde(AUTHORIZED_KEYS_PATH)

\* ---------------------------------------------------------------- bytes

\* The key pair the generator produces on its k-th launch.
Priv(k) == << <<"priv", k, 1>>, <<"priv", k, 2>> >>
Pub(k) == << <<"pub", k, 1>>, <<"pub", k, 2>> >>

\* Content the allow-list may hold before the first run.
OldContents == { <<>>, << <<"old", 0, 1>> >>, << <<"old", 0, 1>>, <<"old", 0, 2>> >> }

\* What the generator may write to its error stream: bytes, xFF not being
\* valid UTF-8.
Diags == { <<>>, <<"b", "o", "o", "m">>, <<"b", "xFF">> }

\* String::from_utf8_lossy: an invalid byte becomes U+FFFD.
Lossy(bytes) == [i \in 1..Len(bytes) |-> IF bytes[i] = "xFF" THEN "uFFFD" ELSE bytes[i]]

\* ---------------------------------------------------------------- errors

CustomOpen == <<"C", "u", "s", "t", "o", "m", " ", "{", " ", "k", "i", "n", "d", ":", " ", "O", "t", "h", "e", "r", ",", " ", "e", "r", "r", "o", "r", ":", " ", "\"">>
CustomClose == <<"\"", " ", "}">>
OsOpen == <<"O", "s", " ", "{", " ", "m", "e", "s", "s", "a", "g", "e", ":", " ", "\"">>
EACCES == <<"P", "e", "r", "m", "i", "s", "s", "i", "o", "n", " ", "d", "e", "n", "i", "e", "d">>
ENOENT == <<"N", "o", " ", "s", "u", "c", "h", " ", "f", "i", "l", "e", " ", "o", "r", " ", "d", "i", "r", "e", "c", "t", "o", "r", "y">>
EIO == <<"I", "n", "p", "u", "t", "/", "o", "u", "t", "p", "u", "t", " ", "e", "r", "r", "o", "r">>
ExpectMsg == <<"F", "a", "i", "l", "e", "d", " ", "t", "o", " ", "g", "e", "n", "e", "r", "a", "t", "e", " ", "S", "S", "H", " ", "k", "e", "y">>

\* An io::Error: one the operating system reported, or the one
\* generate_ssh_key builds with io::Error::new(ErrorKind::Other, ..).
OsError(msg) == [kind |-> "Os", msg |-> msg]
CustomError(msg) == [kind |-> "Other", msg |-> msg]
NoError == [kind |-> "none", msg |-> <<>>]

\* The {:?} rendering of an io::Error.
DebugErr(e) ==
    IF e.kind = "Other" THEN CustomOpen \o e.msg \o CustomClose
    ELSE OsOpen \o e.msg \o CustomClose

\* What the runtime writes to the error stream when main returns Err(e).
ErrLine(e) == [label |-> "Error: ", text |-> DebugErr(e)]

\* What the panic hook writes when .expect(msg) meets Err(e).
PanicLine(e) == [label |-> "thread 'main' panicked: ", text |-> ExpectMsg \o <<":", " ">> \o DebugErr(e)]

\* The process exit code: main returned Ok(()), main returned Err, or a panic
\* unwound out of main.
ExitSuccess == 0
ExitFailure == 1
ExitPanic == 101

ExitCodeAlwaysZero(result) == ExitSuccess

ExitCode(result) ==
    IF result = "Ok" THEN ExitSuccess
    ELSE IF result = "Err" THEN ExitFailure
    ELSE ExitPanic

\* ---------------------------------------------------------------- state

Procs == {1, 2}

Pipeline == <<"Input", "DirectoryAssurance", "KeyGeneration", "Enrollment", "Disclosure">>

FailureClasses == {"input", "dir", "launch", "exit", "read", "append"}

VARIABLES
    pc,            \* each run's position in main
    stdin,         \* each run's standard input
    local,         \* each run's local variables
    io,            \* each run's standard output, error stream and exit code
    tool,          \* each run's key generator process
    launches,      \* how many times the key generator has been launched
    dirKind,       \* what ~/.ssh is: "absent", "dir" or "file"
    files,         \* the files under ~/.ssh: expanded path -> content
    env,           \* what the environment fixes for the whole behaviour
    hist,          \* each run's history: steps started and succeeded, ...
    ensured,       \* ensure_ssh_directory_exists calls that returned Ok
    restartsLeft   \* re-runs still allowed

vars == <<pc, stdin, local, io, tool, launches, dirKind, files, env, hist, ensured, restartsLeft>>

NoLocal == [line |-> <<>>, key_name |-> <<>>, private_key_path |-> <<>>,
            public_key_path |-> <<>>, public_key |-> <<>>, buf |-> <<>>]
NoIo == [stdout |-> <<>>, stderr |-> <<>>, exit_code |-> <<>>, err |-> NoError]
NoTool == [key |-> 0, status |-> "none", stderr |-> <<>>]
NoHist == [steps |-> <<>>, ok |-> <<>>, failure |-> "none", authAtStart |-> <<>>,
           enrollPre |-> <<>>, createCalls |-> 0, ensuredBefore |-> 0]

\* The allow-list's content; a missing file has none.
AuthOf(fs) == IF AuthPath \in DOMAIN fs THEN fs[AuthPath] ELSE <<>>

NoFiles == [p \in {} |-> <<>>]

\* The file systems a behaviour may start from: without ~/.ssh, or with
\* something else at that path, there are no files under it.
InitFs ==
    {[kind |-> "absent", files |-> NoFiles], [kind |-> "file", files |-> NoFiles],
     [kind |-> "dir", files |-> NoFiles]}
    \cup {[kind |-> "dir", files |-> [p \in {AuthPath} |-> c]] : c \in OldContents}

InitCommon(fs) ==
    /\ local = [r \in Procs |-> NoLocal]
    /\ io = [r \in Procs |-> NoIo]
    /\ tool = [r \in Procs |-> NoTool]
    /\ launches = 0
    /\ dirKind = fs.kind
    /\ files = fs.files
    /\ hist = [r \in Procs |-> [NoHist EXCEPT !.authAtStart = AuthOf(fs.files)]]
    /\ ensured = 0
    /\ restartsLeft = MaxRestarts

\* One run at a time: process 1 runs, process 2 never starts.
Init ==
    \E fs \in InitFs, can \in BOOLEAN, ow \in BOOLEAN, s \in Streams :
        /\ InitCommon(fs)
        /\ env = [dirKind0 |-> fs.kind, canCreate |-> can, toolOverwrites |-> ow]
        /\ pc = [r \in Procs |-> IF r = 1 THEN "input" ELSE "off"]
        /\ stdin = [r \in Procs |-> IF r = 1 THEN s ELSE <<>>]

\* The file systems the concurrent runs start from.
InitFsConc ==
    {[kind |-> "absent", files |-> NoFiles],
     [kind |-> "dir", files |-> [p \in {AuthPath} |-> << <<"old", 0, 1>> >>]]}

\* Two runs at once.
InitConc ==
    \E fs \in InitFsConc, can \in BOOLEAN, ow \in BOOLEAN, s1 \in ConcStreams, s2 \in ConcStreams :
        /\ InitCommon(fs)
        /\ env = [dirKind0 |-> fs.kind, canCreate |-> can, toolOverwrites |-> ow]
        /\ pc = [r \in Procs |-> "input"]
        /\ stdin = [r \in Procs |-> IF r = 1 THEN s1 ELSE s2]

\* ---------------------------------------------------------------- helpers

Say(r, l) == [io EXCEPT ![r].stdout = Append(@, l)]

Line(label, text) == [label |-> label, text |-> text]

\* The ? operator in main: an Err ends main at once.
OnErrorIgnoringEnrollment(step) == IF step = "Enrollment" THEN "disclose" ELSE "aborted"

OnError(step) == "aborted"

\* A step of the pipeline starts, and ends well.
Started(h, step) == [h EXCEPT !.steps = Append(@, step)]

Succeeded(h, step) == [h EXCEPT !.ok = Append(@, step)]

\* main returns Err(e) out of `step`: the runtime prints it on the error stream
\* and the process exits.  `out` and `h` are the run's output and history so far.
Fail(r, step, class, e, out, h) ==
    /\ pc' = [pc EXCEPT ![r] = OnError(step)]
    /\ io' = [out EXCEPT ![r].stderr = Append(@, ErrLine(e)),
                         ![r].exit_code = <<ExitCode("Err")>>,
                         ![r].err = e]
    /\ hist' = [h EXCEPT ![r].failure = class]

\* ---------------------------------------------------------------- main.rs:29-43

\* Input resolution: the prompt, read_line, trim, the default, the two paths.
Input(r) ==
    /\ pc[r] = "input"
    /\ LET out == Say(r, Line("Enter the name you want to use for the SSH key (default: github-actions):", <<>>))
           h == [hist EXCEPT ![r] = Started(@, "Input")]
       IN  \/ /\ Fail(r, "Input", "input", OsError(EIO), out, h)
              /\ UNCHANGED local
           \/ /\ LET line == ReadLine(stdin[r])
                     name == ResolveKeyName(line)
                 IN  local' = [local EXCEPT ![r].line = line,
                                            ![r].key_name = name,
                                            ![r].private_key_path = PrivateKeyPath(name),
                                            ![r].public_key_path = PublicKeyPath(name)]
              /\ io' = out
              /\ hist' = [h EXCEPT ![r] = Succeeded(@, "Input")]
              /\ pc' = [pc EXCEPT ![r] = "dir_check"]
    /\ UNCHANGED <<stdin, tool, launches, dirKind, files, env, ensured, restartsLeft>>

\* ---------------------------------------------------------------- main.rs:66-77

\* Path::exists: true of whatever is at the path, a directory or not.
PathNeverExists(kind) == FALSE

PathExists(kind) == kind # "absent"

\* std::fs::create_dir_all returns Ok when it made the directory and when the
\* path is a directory already.
CreateDirAllOk(kind, can) == kind = "dir" \/ (kind = "absent" /\ can)

\* ensure_ssh_directory_exists, up to its test of path.exists().
EnsureCheck(r) ==
    /\ pc[r] = "dir_check"
    /\ LET h == [hist EXCEPT ![r] = [Started(@, "DirectoryAssurance") EXCEPT !.ensuredBefore = ensured]]
       IN  IF PathExists(dirKind)
           THEN /\ pc' = [pc EXCEPT ![r] = "keygen"]
                /\ hist' = [h EXCEPT ![r] = Succeeded(@, "DirectoryAssurance")]
                /\ ensured' = ensured + 1
           ELSE /\ pc' = [pc EXCEPT ![r] = "dir_create"]
                /\ hist' = h
                /\ UNCHANGED ensured
    /\ UNCHANGED <<stdin, local, io, tool, launches, dirKind, files, env, restartsLeft>>

\* ensure_ssh_directory_exists, its create_dir_all branch.
EnsureCreate(r) ==
    /\ pc[r] = "dir_create"
    /\ LET h == [hist EXCEPT ![r].createCalls = @ + 1]
       IN  IF CreateDirAllOk(dirKind, env.canCreate)
           THEN /\ dirKind' = "dir"
                /\ io' = Say(r, Line("Created directory: ", SSH_DIR))
                /\ hist' = [h EXCEPT ![r] = Succeeded(@, "DirectoryAssurance")]
                /\ pc' = [pc EXCEPT ![r] = "keygen"]
                /\ ensured' = ensured + 1
           ELSE /\ Fail(r, "DirectoryAssurance", "dir", OsError(EACCES), io, h)
                /\ UNCHANGED <<dirKind, ensured>>
    /\ UNCHANGED <<stdin, local, tool, launches, files, env, restartsLeft>>

\* ---------------------------------------------------------------- main.rs:90-120

\* Command::new("ssh-keygen") ... .output().expect(..): the generator is
\* launched with the private key path as its -f argument, or the launch fails
\* and .expect panics.
KeygenLaunch(r) ==
    /\ pc[r] = "keygen"
    /\ LET h == [hist EXCEPT ![r] = Started(@, "KeyGeneration")]
       IN  \/ /\ pc' = [pc EXCEPT ![r] = "aborted"]
              /\ io' = [io EXCEPT ![r].stderr = Append(@, PanicLine(OsError(ENOENT))),
                                  ![r].exit_code = <<ExitCode("Panic")>>,
                                  ![r].err = OsError(ENOENT)]
              /\ hist' = [h EXCEPT ![r].failure = "launch"]
              /\ UNCHANGED <<tool, launches>>
           \/ /\ launches' = launches + 1
              /\ tool' = [tool EXCEPT ![r] = [key |-> launches + 1, status |-> "running", stderr |-> <<>>]]
              /\ pc' = [pc EXCEPT ![r] = "tool_check"]
              /\ io' = io
              /\ hist' = h
    /\ UNCHANGED <<stdin, local, dirKind, files, env, ensured, restartsLeft>>

\* The generator exits with a non-success status, d on its error stream.
ToolFails(r, d) ==
    /\ tool' = [tool EXCEPT ![r].status = "failed", ![r].stderr = d]
    /\ pc' = [pc EXCEPT ![r] = "keygen_ret"]

\* The generator starts: it may fail at once, and one that does not overwrite
\* refuses an output path that exists (it cannot ask: its standard input is
\* not the terminal).
ToolCheck(r) ==
    /\ pc[r] = "tool_check"
    /\ \/ \E d \in Diags : ToolFails(r, d)
       \/ /\ Tilde(local[r].private_key_path) \in DOMAIN files
          /\ ~env.toolOverwrites
          /\ ToolFails(r, <<"e", "x", "i", "s", "t", "s">>)
       \/ /\ Tilde(local[r].private_key_path) \notin DOMAIN files \/ env.toolOverwrites
          /\ pc' = [pc EXCEPT ![r] = "tool_priv"]
          /\ UNCHANGED tool
    /\ UNCHANGED <<stdin, local, io, launches, dirKind, files, env, hist, ensured, restartsLeft>>

\* Writing a file whole: created, or its content replaced.
WriteFile(fs, path, content) == [p \in DOMAIN fs \cup {path} |-> IF p = path THEN content ELSE fs[p]]

\* The generator writes the private key to its -f path; it cannot where
\* ~/.ssh is not a directory.
ToolWritePrivate(r) ==
    /\ pc[r] = "tool_priv"
    /\ IF dirKind = "dir"
       THEN /\ files' = WriteFile(files, Tilde(local[r].private_key_path), Priv(tool[r].key))
            /\ pc' = [pc EXCEPT ![r] = "tool_pub"]
            /\ UNCHANGED tool
       ELSE /\ ToolFails(r, <<"b", "o", "o", "m">>)
            /\ UNCHANGED files
    /\ UNCHANGED <<stdin, local, io, launches, dirKind, env, hist, ensured, restartsLeft>>

\* The generator writes the public key beside the private key and exits with
\* success, or fails to and exits without.
ToolWritePublic(r) ==
    /\ pc[r] = "tool_pub"
    /\ \/ /\ files' = WriteFile(files, Tilde(local[r].private_key_path) \o PubSuffix, Pub(tool[r].key))
          /\ tool' = [tool EXCEPT ![r].status = "success"]
          /\ pc' = [pc EXCEPT ![r] = "keygen_ret"]
       \/ /\ \E d \in Diags : ToolFails(r, d)
          /\ UNCHANGED files
    /\ UNCHANGED <<stdin, local, io, launches, dirKind, env, hist, ensured, restartsLeft>>

\* println!("Error generating SSH key: {}", String::from_utf8_lossy(&stderr))
KeygenErrorLineWithoutStderr(d) == Line("Error generating SSH key: ", <<>>)

KeygenErrorLine(d) == Line("Error generating SSH key: ", Lossy(d))

\* generate_ssh_key after .output() returned: the test of the exit status.
KeygenReturn(r) ==
    /\ pc[r] = "keygen_ret"
    /\ IF tool[r].status # "success"
       THEN Fail(r, "KeyGeneration", "exit", CustomError(KeygenFailedMsg),
                 Say(r, KeygenErrorLine(tool[r].stderr)), hist)
       ELSE /\ io' = Say(r, Line("SSH key generated successfully.", <<>>))
            /\ hist' = [hist EXCEPT ![r] = Succeeded(@, "KeyGeneration")]
            /\ pc' = [pc EXCEPT ![r] = "enroll_read"]
    /\ UNCHANGED <<stdin, local, tool, launches, dirKind, files, env, ensured, restartsLeft>>

\* ---------------------------------------------------------------- main.rs:131-149

\* std::fs::read_to_string(public_key_path)
EnrollRead(r) ==
    /\ pc[r] = "enroll_read"
    /\ LET h == [hist EXCEPT ![r] = [Started(@, "Enrollment") EXCEPT !.enrollPre = AuthOf(files)]]
           path == Tilde(local[r].public_key_path)
       IN  \/ /\ Fail(r, "Enrollment", "read", OsError(IF path \in DOMAIN files THEN EIO ELSE ENOENT), io, h)
              /\ UNCHANGED local
           \/ /\ path \in DOMAIN files
              /\ local' = [local EXCEPT ![r].public_key = files[path]]
              /\ pc' = [pc EXCEPT ![r] = "enroll_open"]
              /\ hist' = h
              /\ io' = io
    /\ UNCHANGED <<stdin, tool, launches, dirKind, files, env, ensured, restartsLeft>>

\* OpenOptions::new().create(true).append(true).open(..): a missing file is
\* created empty, an existing one is left as it is.
OpenTruncating(fs) == WriteFile(fs, AuthPath, <<>>)

OpenCreateAppend(fs) == IF AuthPath \in DOMAIN fs THEN fs ELSE WriteFile(fs, AuthPath, <<>>)

EnrollOpen(r) ==
    /\ pc[r] = "enroll_open"
    /\ \/ /\ Fail(r, "Enrollment", "append", OsError(EACCES), io, hist)
          /\ UNCHANGED <<local, files>>
       \/ /\ files' = OpenCreateAppend(files)
          /\ local' = [local EXCEPT ![r].buf = local[r].public_key]
          /\ pc' = [pc EXCEPT ![r] = "enroll_write"]
          /\ UNCHANGED <<io, hist>>
    /\ UNCHANGED <<stdin, tool, launches, dirKind, env, ensured, restartsLeft>>

\* write_all: write(2) takes some of the buffer and, the file being open for
\* appending, puts it at the file's end; write_all goes on until the buffer is
\* empty or a write fails.
EnrollWrite(r) ==
    /\ pc[r] = "enroll_write"
    /\ IF local[r].buf = <<>>
       THEN /\ io' = Say(r, Line("Public key added to authorized_keys.", <<>>))
            /\ hist' = [hist EXCEPT ![r] = Succeeded(@, "Enrollment")]
            /\ pc' = [pc EXCEPT ![r] = "disclose"]
            /\ UNCHANGED <<local, files>>
       ELSE \/ \E n \in 1..Len(local[r].buf) :
                  /\ files' = WriteFile(files, AuthPath, AuthOf(files) \o SubSeq(local[r].buf, 1, n))
                  /\ local' = [local EXCEPT ![r].buf = SubSeq(@, n + 1, Len(@))]
                  /\ UNCHANGED <<pc, io, hist>>
            \/ /\ Fail(r, "Enrollment", "append", OsError(EIO), io, hist)
               /\ UNCHANGED <<local, files>>
    /\ UNCHANGED <<stdin, tool, launches, dirKind, env, ensured, restartsLeft>>

\* ---------------------------------------------------------------- main.rs:54-58

\* Secret disclosure: read the private key file, print it, return Ok(()).
Disclose(r) ==
    /\ pc[r] = "disclose"
    /\ LET h == [hist EXCEPT ![r] = Started(@, "Disclosure")]
           path == Tilde(local[r].private_key_path)
       IN  \/ Fail(r, "Disclosure", "read", OsError(IF path \in DOMAIN files THEN EIO ELSE ENOENT), io, h)
           \/ /\ path \in DOMAIN files
              /\ io' = [Say(r, Line("Private key to add to GitHub Secrets:\n", files[path]))
                            EXCEPT ![r].exit_code = <<ExitCode("Ok")>>]
              /\ hist' = [h EXCEPT ![r] = Succeeded(@, "Disclosure")]
              /\ pc' = [pc EXCEPT ![r] = "done"]
    /\ UNCHANGED <<stdin, local, tool, launches, dirKind, files, env, ensured, restartsLeft>>

\* ---------------------------------------------------------------- runs

\* What the operator types on a re-run.
RestartStreams == {<<>>, <<"a", "\n">>, AliasLine}

\* The operator runs the program again after a run has ended.
Restart(r) ==
    /\ pc[r] \in {"done", "aborted"}
    /\ restartsLeft > 0
    /\ restartsLeft' = restartsLeft - 1
    /\ \E s \in RestartStreams : stdin' = [stdin EXCEPT ![r] = s]
    /\ pc' = [pc EXCEPT ![r] = "input"]
    /\ local' = [local EXCEPT ![r] = NoLocal]
    /\ io' = [io EXCEPT ![r] = NoIo]
    /\ tool' = [tool EXCEPT ![r] = NoTool]
    /\ hist' = [hist EXCEPT ![r] = [NoHist EXCEPT !.authAtStart = AuthOf(files)]]
    /\ UNCHANGED <<launches, dirKind, files, env, ensured>>

\* One step of one run.
Step(r) ==
    \/ Input(r)
    \/ EnsureCheck(r)
    \/ EnsureCreate(r)
    \/ KeygenLaunch(r)
    \/ ToolCheck(r)
    \/ ToolWritePrivate(r)
    \/ ToolWritePublic(r)
    \/ KeygenReturn(r)
    \/ EnrollRead(r)
    \/ EnrollOpen(r)
    \/ EnrollWrite(r)
    \/ Disclose(r)

Next == \E r \in Procs : Step(r) \/ Restart(r)

NextConc == \E r \in Procs : Step(r)

\* Runs one after another.
Spec == Init /\ [][Next]_vars

\* Two runs at a time.
SpecConc == InitConc /\ [][NextConc]_vars

\* ---------------------------------------------------------------- properties

Printed(r, label) == \E i \in 1..Len(io[r].stdout) : io[r].stdout[i].label = label

\* The text the run printed after the label of its private key line.
Disclosed(r) ==
    LET out == io[r].stdout IN
    IF out # <<>> /\ out[Len(out)].label = "Private key to add to GitHub Secrets:\n"
    THEN out[Len(out)].text ELSE <<>>

Has(seq, x) == \E i \in 1..Len(seq) : seq[i] = x

\* C1: in every run the steps Input, DirectoryAssurance, KeyGeneration,
\* Enrollment, Disclosure start in that order, each at most once, a step starts
\* only when every earlier step has succeeded, and the private key is printed
\* only in a run whose enrollment succeeded.
C1_PipelineOrder ==
    \A r \in Procs :
        LET h == hist[r] IN
        /\ IsPrefix(h.steps, Pipeline)
        /\ IsPrefix(h.ok, h.steps)
        /\ Len(h.steps) <= Len(h.ok) + 1
        /\ (Has(h.steps, "Disclosure") \/ Printed(r, "Private key to add to GitHub Secrets:\n"))
              => /\ Has(h.ok, "Enrollment")
                 /\ Printed(r, "Public key added to authorized_keys.")
                 /\ h.failure \notin {"append", "exit", "launch", "dir", "input"}

\* A run whose enrollment failed on the allow-list has aborted there.
C1_Witness ==
    \E r \in Procs :
        /\ pc[r] = "aborted"
        /\ hist[r].failure = "append"
        /\ hist[r].steps = SubSeq(Pipeline, 1, 4)
        /\ hist[r].ok = SubSeq(Pipeline, 1, 3)

\* C2: once append_public_key_to_authorized_keys has returned Ok, with no
\* other writer, the allow-list exists and holds exactly what it held when the
\* function was entered (nothing, when it was missing) followed by the content
\* of the public key file.
C2_AppendOnly ==
    \A r \in Procs :
        Has(hist[r].ok, "Enrollment") =>
            /\ AuthPath \in DOMAIN files
            /\ Tilde(local[r].public_key_path) \in DOMAIN files
            /\ AuthOf(files) = hist[r].enrollPre \o files[Tilde(local[r].public_key_path)]

\* An enrollment onto an allow-list that held two bytes has succeeded.
C2_Witness ==
    \E r \in Procs :
        /\ Has(hist[r].ok, "Enrollment")
        /\ Len(hist[r].enrollPre) = 2
        /\ hist[r].enrollPre[1] = <<"old", 0, 1>>

\* C3: when the key generator exits without success, or cannot be launched,
\* the run aborts and the allow-list holds at the end of the run what it held
\* at its start.
C3_AllowListUntouchedOnKeygenFailure ==
    \A r \in Procs :
        hist[r].failure \in {"exit", "launch"} =>
            /\ pc[r] = "aborted"
            /\ AuthOf(files) = hist[r].authAtStart

\* C4 as stated: when the key generator exits without success having written D
\* to its error stream, the fatal error the run aborts with, as the error
\* stream shows it, contains D.
C4_FatalErrorContainsDiagnostic ==
    \A r \in Procs :
        hist[r].failure = "exit" =>
            /\ pc[r] = "aborted"
            /\ \E i \in 1..Len(io[r].stderr) : Contains(io[r].stderr[i].text, Lossy(tool[r].stderr))

\* C4 as amended: when the key generator exits without success having written D
\* to its error stream, the run aborts with exit code 1 and the fatal error
\* "SSH key generation failed", which is all the error stream shows; D, decoded
\* lossily as UTF-8, is what standard output shows last, after the label
\* "Error generating SSH key: ".
C4_DiagnosticOnStdout ==
    \A r \in Procs :
        hist[r].failure = "exit" =>
            /\ pc[r] = "aborted"
            /\ io[r].exit_code = <<ExitFailure>>
            /\ io[r].err = CustomError(KeygenFailedMsg)
            /\ io[r].stderr = <<ErrLine(CustomError(KeygenFailedMsg))>>
            /\ io[r].stdout # <<>>
            /\ io[r].stdout[Len(io[r].stdout)] = Line("Error generating SSH key: ", Lossy(tool[r].stderr))

\* The generator wrote boom and exited without success.
C4_Witness ==
    \E r \in Procs :
        /\ hist[r].failure = "exit"
        /\ tool[r].stderr = <<"b", "o", "o", "m">>

\* The step each class of failure belongs to.
StepOfFailure(class) ==
    CASE class = "input" -> "Input"
      [] class = "dir" -> "DirectoryAssurance"
      [] class \in {"launch", "exit"} -> "KeyGeneration"
      [] class = "append" -> "Enrollment"
      [] OTHER -> "Enrollment or Disclosure"

\* C5: a run exits with code 0 only when all five steps succeeded; a failure of
\* any of the six classes ends the run at the step it belongs to, with a
\* non-zero exit code and a diagnostic on the error stream, the failed step
\* having been started once and no step after it.
C5_FatalAbort ==
    \A r \in Procs :
        LET h == hist[r] IN
        /\ io[r].exit_code = <<ExitSuccess>> => (h.ok = Pipeline /\ h.failure = "none")
        /\ pc[r] = "done" => io[r].exit_code = <<ExitSuccess>>
        /\ (h.failure # "none" \/ pc[r] = "aborted") =>
              /\ pc[r] = "aborted"
              /\ h.failure \in FailureClasses
              /\ Len(io[r].exit_code) = 1
              /\ io[r].exit_code[1] # ExitSuccess
              /\ io[r].stderr # <<>>
              /\ io[r].stderr[Len(io[r].stderr)].text # <<>>
              /\ h.steps = SubSeq(Pipeline, 1, Len(h.ok) + 1)
              /\ h.failure = "read" => h.steps[Len(h.steps)] \in {"Enrollment", "Disclosure"}
              /\ h.failure # "read" => h.steps[Len(h.steps)] = StepOfFailure(h.failure)

\* A run has aborted because the key generator could not be launched.
C5_Witness ==
    \E r \in Procs :
        /\ pc[r] = "aborted"
        /\ hist[r].failure = "launch"
        /\ io[r].exit_code = <<ExitPanic>>

AllWhite(s) == \A i \in 1..Len(s) : s[i] \in WhiteSpace

\* C6: once the input is resolved, the key name is github-actions when the
\* line read is empty or all whitespace, and otherwise the line from its first
\* to its last character that is not whitespace; it is never empty; the private
\* key path is the configuration directory, a slash and the key name, and the
\* public key path is that followed by .pub.
C6_KeyNameResolution ==
    \A r \in Procs :
        Has(hist[r].ok, "Input") =>
            LET line == local[r].line
                name == local[r].key_name
            IN  /\ IsPrefix(line, stdin[r])
                /\ AllWhite(line) => name = DefaultKeyName
                /\ ~AllWhite(line) =>
                      \E i \in 1..Len(line) : \E j \in i..Len(line) :
                          /\ line[i] \notin WhiteSpace
                          /\ line[j] \notin WhiteSpace
                          /\ AllWhite(SubSeq(line, 1, i - 1))
                          /\ AllWhite(SubSeq(line, j + 1, Len(line)))
                          /\ name = SubSeq(line, i, j)
                /\ name # <<>>
                /\ local[r].private_key_path = SSH_DIR \o <<"/">> \o name
                /\ local[r].public_key_path = SSH_DIR \o <<"/">> \o name \o <<".", "p", "u", "b">>
                /\ line = <<>> => IsSuffix(<<"/">> \o DefaultKeyName, local[r].private_key_path)

\* A line with whitespace on both sides of a name has been resolved.
C6_Witness ==
    \E r \in Procs :
        /\ Has(hist[r].ok, "Input")
        /\ local[r].line = <<" ", "a", "\n">>
        /\ local[r].key_name = <<"a">>

\* C7: at the end of a successful run, whose key generator wrote PRIV to the
\* private key path and PUB to the public key path, the allow-list ends with
\* PUB and the text disclosed on standard output is PRIV.
C7_RoundTrip ==
    \A r \in Procs :
        (pc[r] = "done" /\ tool[r].status = "success") =>
            /\ IsSuffix(Pub(tool[r].key), AuthOf(files))
            /\ Disclosed(r) = Priv(tool[r].key)

\* C8: an ensure_ssh_directory_exists that follows one that returned Ok calls
\* no create_dir_all, prints no "Created directory", returns Ok, and leaves a
\* directory at the path wherever creation was permitted to begin with; a
\* directory that was there to begin with is never created again.
C8_EnsureIdempotent ==
    /\ \A r \in Procs :
          (hist[r].ensuredBefore >= 1 /\ Has(hist[r].steps, "DirectoryAssurance")) =>
              /\ hist[r].createCalls = 0
              /\ ~Printed(r, "Created directory: ")
              /\ hist[r].failure # "dir"
              /\ Has(hist[r].ok, "DirectoryAssurance")
              /\ CreateDirAllOk(env.dirKind0, env.canCreate) => dirKind = "dir"
    /\ env.dirKind0 = "dir" =>
          /\ dirKind = "dir"
          /\ \A r \in Procs : hist[r].createCalls = 0 /\ ~Printed(r, "Created directory: ")

\* The second call found the directory the first call had created.
C8_Witness ==
    \E r \in Procs :
        /\ hist[r].ensuredBefore >= 1
        /\ Has(hist[r].ok, "DirectoryAssurance")
        /\ env.dirKind0 = "absent"
        /\ dirKind = "dir"

\* C9: the allow-list is only ever extended: what it holds after any step has
\* what it held before as a prefix, and once the file exists it stays.
C9_AllowListOnlyExtended ==
    [][/\ IsPrefix(AuthOf(files), AuthOf(files'))
       /\ AuthPath \in DOMAIN files => AuthPath \in DOMAIN files']_vars

\* C10: in every successful run the public key the run appended and the
\* private key it printed are the pair its own key generation produced.
C10_KeyPairConsistency ==
    \A r \in Procs :
        pc[r] = "done" =>
            /\ local[r].public_key = Pub(tool[r].key)
            /\ Disclosed(r) = Priv(tool[r].key)

====
